---- MODULE Spec2Model ----
(***************************************************************************)
(* Model of py4vasp.raw.File (src/src/py4vasp/raw/file.py): the handle on  *)
(* the HDF5 file written by Vasp, its lifecycle (open, close, use as a     *)
(* context manager) and the read operations that map the fixed schema of   *)
(* paths onto the Raw* records, packaged in a DataDict with the version.   *)
(***************************************************************************)
EXTENDS Integers, Sequences, FiniteSets, TLC

VARIABLES
    fs,        \* the file names h5py can open
    store,     \* content of the HDF5 file: the paths present and the data stored
    closed,    \* File.closed
    h5f,       \* File._h5f: "unset", "open" or "closed"
    result,    \* outcome of the last call: the value returned or the error raised
    rewrites,  \* number of times the data of the file has been rewritten
    pc,        \* position of the caller: plain use of the handle or a with block
    exc,       \* the error that left the body of the with block, if any
    reads,     \* number of read operations called so far (counted up to MaxReads)
    ref,       \* a dataset of an earlier result that the caller still holds
    view       \* the View object, its fields given by their shapes

vars == <<fs, store, closed, h5f, result, rewrites, pc, exc, reads, ref, view>>

(***************************************************************************)
(* Bounds                                                                  *)
(***************************************************************************)
MaxMissing == 1     \* paths removed from (or added to) a base content of the file
MaxRewrites == 2    \* rewrites of stored data while the handle exists
MaxValue == 3       \* stored scalars and outer lengths range over 1..MaxValue
MaxReads == 2       \* calls of the same read in a row are counted up to this number
MaxSteps == 2       \* steps of the arrays of a View range over 0..MaxSteps
MaxEdits == 2       \* fields of a View set after its arguments were first chosen

(***************************************************************************)
(* The schema: every path the read operations look up                      *)
(***************************************************************************)
Root == "/"

Suffixes == {"", "_kpoints_opt"}

Under(group, names) == {[path |-> group \o "/" \o n, parent |-> group] : n \in names}

Node(p, parent) == {[path |-> p, parent |-> parent]}

VariantNodes(suffix) ==
    Node("results/electron_dos" \o suffix, "results")
    \cup Under("results/electron_dos" \o suffix, {"efermi", "energies", "dos", "dospar"})
    \cup Node("results/electron_eigenvalues" \o suffix, "results")
    \cup Under("results/electron_eigenvalues" \o suffix,
               {"eigenvalues", "fermiweights", "kpoint_coords", "kpoints_symmetry_weight"})
    \cup Node("results/projectors" \o suffix, "results")
    \cup Under("results/projectors" \o suffix, {"lchar", "par"})

InputName(suffix) == IF suffix = "_kpoints_opt" THEN "input/kpoints_opt" ELSE "input/kpoints"

InputNodes(suffix) ==
    Node(InputName(suffix), "input")
    \cup Under(InputName(suffix),
               {"mode", "number_kpoints", "labels_kpoints", "positions_labels_kpoints"})

Nodes ==
    Node("version", Root) \cup Under("version", {"major", "minor", "patch"})
    \cup Node("results", Root) \cup Node("input", Root)
    \cup Node("intermediate", Root) \cup Node("charge", Root)
    \cup UNION {VariantNodes(s) : s \in Suffixes}
    \cup UNION {InputNodes(s) : s \in Suffixes}
    \cup Node("results/positions", "results")
    \cup Under("results/positions",
               {"ion_types", "number_ion_types", "scale", "lattice_vectors", "position_ions"})
    \cup Node("intermediate/ion_dynamics", "intermediate")
    \cup Under("intermediate/ion_dynamics",
               {"position_ions", "lattice_vectors", "energies_tags", "energies"})
    \cup Node("intermediate/ion_dynamics/magnetism", "intermediate/ion_dynamics")
    \cup Under("intermediate/ion_dynamics/magnetism", {"moments"})
    \cup Under("charge", {"charge"})

AllPaths == {n.path : n \in Nodes}

Parent(p) == IF p = Root THEN Root ELSE (CHOOSE n \in Nodes : n.path = p).parent

\* the schema is at most four levels deep
Ancestors(p) == {p, Parent(p), Parent(Parent(p)), Parent(Parent(Parent(p)))} \ {Root}

Subtree(p) == {q \in AllPaths : p \in Ancestors(q)}

(***************************************************************************)
(* Stored data: the scalars read eagerly and the outer length of the       *)
(* eigenvalues, which stands for the dataset in len()                      *)
(***************************************************************************)
EfermiKey(suffix) == "results/electron_dos" \o suffix \o "/efermi"

EigenvaluesKey(suffix) == "results/electron_eigenvalues" \o suffix \o "/eigenvalues"

VersionLeaves == {"version/major", "version/minor", "version/patch"}

DataLeaves ==
    VersionLeaves
    \cup {EfermiKey(s) : s \in Suffixes}
    \cup {EigenvaluesKey(s) : s \in Suffixes}
    \cup {InputName(s) \o "/mode" : s \in Suffixes}
    \cup {InputName(s) \o "/number_kpoints" : s \in Suffixes}
    \cup {"results/positions/scale"}

Rewritable == VersionLeaves \cup {EfermiKey(s) : s \in Suffixes} \cup {EigenvaluesKey(s) : s \in Suffixes}

InitData == [p \in DataLeaves |->
    CASE p = "version/major" -> 1
      [] p = "version/minor" -> 2
      [] p = "version/patch" -> 3
      [] p \in {EfermiKey(""), EigenvaluesKey(""), "input/kpoints/mode",
                "input/kpoints/number_kpoints", "results/positions/scale"} -> 1
      [] OTHER -> 2]

FullStore == [paths |-> AllPaths, data |-> InitData]

MinimalStore ==
    [paths |-> Subtree("version") \cup Ancestors("results/positions") \cup Subtree("results/positions"),
     data |-> InitData]

RECURSIVE Removed(_, _)
Removed(paths, n) ==
    IF n = 0 THEN {paths}
    ELSE {paths} \cup UNION {Removed(paths \ Subtree(p), n - 1) : p \in paths}

RECURSIVE Added(_, _)
Added(paths, n) ==
    IF n = 0 THEN {paths}
    ELSE {paths} \cup UNION {Added(paths \cup Ancestors(p), n - 1) : p \in AllPaths \ paths}

InitStores ==
    {[paths |-> ps, data |-> InitData] :
        ps \in Removed(FullStore.paths, MaxMissing) \cup Added(MinimalStore.paths, MaxMissing)}

(***************************************************************************)
(* Values: what a call returns or raises                                   *)
(***************************************************************************)
None == [tag |-> "None"]

KeyError(key) == [tag |-> "KeyError", key |-> key]

\* h5py refuses a lookup in a file that was closed
H5pyClosedError == [tag |-> "H5pyClosedError"]

OSError == [tag |-> "OSError"]

FileAccessError(message, cause) == [tag |-> "FileAccessError", message |-> message, cause |-> cause]

IsError(v) ==
    v.tag \in {"KeyError", "H5pyClosedError", "OSError", "FileAccessError", "RuntimeError",
               "NotImplemented", "IncorrectUsage", "IndexError", "ValueError"}

Dataset(p) == [tag |-> "Dataset", path |-> p]

Scalar(n) == [tag |-> "Scalar", value |-> n]

Str(n) == [tag |-> "Str", value |-> n]

\* keyword arguments are evaluated left to right; the first one that raises ends the call
Construct(args, record) ==
    LET raising == {i \in DOMAIN args : IsError(args[i])}
    IN IF raising = {} THEN record
       ELSE args[CHOOSE i \in raising : \A j \in raising : i <= j]

(***************************************************************************)
(* The h5py file object behind File._h5f                                   *)
(***************************************************************************)
\* key in self._h5f
Contains(key) == h5f = "open" /\ key \in store.paths

\* self._h5f[key]
GetItem(key) ==
    IF h5f # "open" THEN H5pyClosedError
    ELSE IF key \in store.paths THEN Dataset(key)
    ELSE KeyError(key)

\* self._h5f[key][()]
GetScalar(key) ==
    LET dataset == GetItem(key)
    IN IF IsError(dataset) THEN dataset ELSE Scalar(store.data[key])

\* len(self._h5f[key])
GetLen(key) ==
    LET dataset == GetItem(key)
    IN IF IsError(dataset) THEN dataset ELSE Scalar(store.data[key])

\* self._h5f[key][()].decode()
GetDecoded(key) ==
    LET dataset == GetItem(key)
    IN IF IsError(dataset) THEN dataset ELSE Str(store.data[key])

(***************************************************************************)
(* File: helpers                                                           *)
(***************************************************************************)
default_filename == "vaspout.h5"

Filenames == {"None", "calc", "calc/other.h5"}

Directories == {"calc"}

_actual_filename(filename) ==
    IF filename = "None" THEN default_filename
    ELSE IF filename \in Directories THEN filename \o "/" \o default_filename
    ELSE filename

ActualFilenames == {_actual_filename(f) : f \in Filenames}

\* variant: the check of the closed flag is missing
_raise_error_if_closed_missing == None

_raise_error_if_closed ==
    IF closed THEN FileAccessError("I/O operation on closed file.", None) ELSE None

_safe_get_key(key) == IF Contains(key) THEN GetItem(key) ELSE None

\* variant: the version is read once and kept
version_cached ==
    LET check == _raise_error_if_closed
        major == IF Contains("version/major") THEN Scalar(InitData["version/major"])
                 ELSE KeyError("version/major")
        minor == IF Contains("version/minor") THEN Scalar(InitData["version/minor"])
                 ELSE KeyError("version/minor")
        patch == IF Contains("version/patch") THEN Scalar(InitData["version/patch"])
                 ELSE KeyError("version/patch")
    IN IF IsError(check) THEN check
       ELSE Construct(<<major, minor, patch>>,
                [tag |-> "RawVersion", major |-> major, minor |-> minor, patch |-> patch])

version ==
    LET check == _raise_error_if_closed
        major == GetScalar("version/major")
        minor == GetScalar("version/minor")
        patch == GetScalar("version/patch")
    IN IF IsError(check) THEN check
       ELSE Construct(<<major, minor, patch>>,
                [tag |-> "RawVersion", major |-> major, minor |-> minor, patch |-> patch])

\* DataDict of py4vasp.raw.rawdata: a dictionary that carries the version
DataDict(dict, v) == [tag |-> "DataDict", dict |-> dict, version |-> v]

NoOther == [k \in {} |-> None]

\* variant: a variant that is None gets no key
_make_data_dict_omit(default, other) ==
    LET v == version
        dict == other @@ ("default" :> default)
    IN IF IsError(v) THEN v
       ELSE DataDict([k \in {k \in DOMAIN dict : dict[k].tag # "None"} |-> dict[k]], v)

_make_data_dict(default, other) ==
    LET v == version
    IN IF IsError(v) THEN v ELSE DataDict(other @@ ("default" :> default), v)

\* a property that passes read results to _make_data_dict: the arguments are
\* evaluated first, in order, and an error raised by one of them ends the call
Property1(default) ==
    IF IsError(default) THEN default ELSE _make_data_dict(default, NoOther)

Property2(default, kpoints_opt) ==
    IF IsError(default) THEN default
    ELSE IF IsError(kpoints_opt) THEN kpoints_opt
    ELSE _make_data_dict(default, [kpoints_opt |-> kpoints_opt])

(***************************************************************************)
(* File: the read operations                                               *)
(***************************************************************************)
_read_topology ==
    LET check == _raise_error_if_closed
        ion_types == GetItem("results/positions/ion_types")
        number_ion_types == GetItem("results/positions/number_ion_types")
    IN IF IsError(check) THEN check
       ELSE Construct(<<ion_types, number_ion_types>>,
                [tag |-> "RawTopology", ion_types |-> ion_types,
                 number_ion_types |-> number_ion_types])

_read_cell ==
    LET check == _raise_error_if_closed
        scale == GetScalar("results/positions/scale")
        lattice_vectors == GetItem("results/positions/lattice_vectors")
    IN IF IsError(check) THEN check
       ELSE Construct(<<scale, lattice_vectors>>,
                [tag |-> "RawCell", scale |-> scale, lattice_vectors |-> lattice_vectors])

_read_magnetism ==
    LET check == _raise_error_if_closed
        key == "intermediate/ion_dynamics/magnetism/moments"
        moments == GetItem(key)
    IN IF IsError(check) THEN check
       ELSE IF ~Contains(key) THEN None
       ELSE Construct(<<moments>>, [tag |-> "RawMagnetism", moments |-> moments])

_read_structure ==
    LET check == _raise_error_if_closed
        topology == _read_topology
        cell == _read_cell
        positions == GetItem("results/positions/position_ions")
        magnetism == _read_magnetism
    IN IF IsError(check) THEN check
       ELSE Construct(<<topology, cell, positions, magnetism>>,
                [tag |-> "RawStructure", topology |-> topology, cell |-> cell,
                 positions |-> positions, magnetism |-> magnetism])

_read_trajectory ==
    LET check == _raise_error_if_closed
        topology == _read_topology
        positions == GetItem("intermediate/ion_dynamics/position_ions")
        lattice_vectors == GetItem("intermediate/ion_dynamics/lattice_vectors")
    IN IF IsError(check) THEN check
       ELSE Construct(<<topology, positions, lattice_vectors>>,
                [tag |-> "RawTrajectory", topology |-> topology, positions |-> positions,
                 lattice_vectors |-> lattice_vectors])

_read_energy ==
    LET check == _raise_error_if_closed
        labels == GetItem("intermediate/ion_dynamics/energies_tags")
        values == GetItem("intermediate/ion_dynamics/energies")
    IN IF IsError(check) THEN check
       ELSE Construct(<<labels, values>>,
                [tag |-> "RawEnergy", labels |-> labels, values |-> values])

_read_density ==
    LET check == _raise_error_if_closed
        structure == _read_structure
        charge == GetItem("charge/charge")
    IN IF IsError(check) THEN check
       ELSE Construct(<<structure, charge>>,
                [tag |-> "RawDensity", structure |-> structure, charge |-> charge])

\* variant: the eigenvalues of the default variant are counted for every variant
_read_projectors_default(suffix) ==
    LET check == _raise_error_if_closed
        eigenvalues_key == "results/electron_eigenvalues/eigenvalues"
        topology == _read_topology
        orbital_types == GetItem("results/projectors" \o suffix \o "/lchar")
        number_spins == GetLen(eigenvalues_key)
    IN IF IsError(check) THEN check
       ELSE IF ~Contains("results/projectors" \o suffix) THEN None
       ELSE Construct(<<topology, orbital_types, number_spins>>,
                [tag |-> "RawProjectors", topology |-> topology,
                 orbital_types |-> orbital_types, number_spins |-> number_spins])

_read_projectors(suffix) ==
    LET check == _raise_error_if_closed
        eigenvalues_key == "results/electron_eigenvalues" \o suffix \o "/eigenvalues"
        topology == _read_topology
        orbital_types == GetItem("results/projectors" \o suffix \o "/lchar")
        number_spins == GetLen(eigenvalues_key)
    IN IF IsError(check) THEN check
       ELSE IF ~Contains("results/projectors" \o suffix) THEN None
       ELSE Construct(<<topology, orbital_types, number_spins>>,
                [tag |-> "RawProjectors", topology |-> topology,
                 orbital_types |-> orbital_types, number_spins |-> number_spins])

\* variant: None is returned only if both namespaces are missing
_read_kpoints_both(suffix) ==
    LET check == _raise_error_if_closed
        input == IF suffix = "_kpoints_opt" THEN "input/kpoints_opt" ELSE "input/kpoints"
        res == "results/electron_eigenvalues" \o suffix
        mode == GetDecoded(input \o "/mode")
        number == GetScalar(input \o "/number_kpoints")
        coordinates == GetItem(res \o "/kpoint_coords")
        weights == GetItem(res \o "/kpoints_symmetry_weight")
        labels == _safe_get_key(input \o "/labels_kpoints")
        label_indices == _safe_get_key(input \o "/positions_labels_kpoints")
        cell == _read_cell
    IN IF IsError(check) THEN check
       ELSE IF ~Contains(input) /\ ~Contains(res) THEN None
       ELSE Construct(<<mode, number, coordinates, weights, labels, label_indices, cell>>,
                [tag |-> "RawKpoints", mode |-> mode, number |-> number,
                 coordinates |-> coordinates, weights |-> weights, labels |-> labels,
                 label_indices |-> label_indices, cell |-> cell])

_read_kpoints(suffix) ==
    LET check == _raise_error_if_closed
        input == IF suffix = "_kpoints_opt" THEN "input/kpoints_opt" ELSE "input/kpoints"
        res == "results/electron_eigenvalues" \o suffix
        mode == GetDecoded(input \o "/mode")
        number == GetScalar(input \o "/number_kpoints")
        coordinates == GetItem(res \o "/kpoint_coords")
        weights == GetItem(res \o "/kpoints_symmetry_weight")
        labels == _safe_get_key(input \o "/labels_kpoints")
        label_indices == _safe_get_key(input \o "/positions_labels_kpoints")
        cell == _read_cell
    IN IF IsError(check) THEN check
       ELSE IF ~Contains(input) \/ ~Contains(res) THEN None
       ELSE Construct(<<mode, number, coordinates, weights, labels, label_indices, cell>>,
                [tag |-> "RawKpoints", mode |-> mode, number |-> number,
                 coordinates |-> coordinates, weights |-> weights, labels |-> labels,
                 label_indices |-> label_indices, cell |-> cell])

_read_dos(suffix) ==
    LET check == _raise_error_if_closed
        group == "results/electron_dos" \o suffix
        fermi_energy == GetScalar(group \o "/efermi")
        energies == GetItem(group \o "/energies")
        dos_ == GetItem(group \o "/dos")
        projectors_ == _read_projectors(suffix)
        projections == _safe_get_key(group \o "/dospar")
    IN IF IsError(check) THEN check
       ELSE IF ~Contains(group \o "/energies") THEN None
       ELSE Construct(<<fermi_energy, energies, dos_, projectors_, projections>>,
                [tag |-> "RawDos", fermi_energy |-> fermi_energy, energies |-> energies,
                 dos |-> dos_, projectors |-> projectors_, projections |-> projections])

\* variant: the Fermi energy of the default variant is used for every variant
_read_band_default_fermi(suffix) ==
    LET check == _raise_error_if_closed
        group == "results/electron_eigenvalues" \o suffix
        fermi_energy == GetScalar("results/electron_dos/efermi")
        kpoints_ == _read_kpoints(suffix)
        eigenvalues == GetItem(group \o "/eigenvalues")
        occupations == GetItem(group \o "/fermiweights")
        projectors_ == _read_projectors(suffix)
        projections == _safe_get_key("results/projectors" \o suffix \o "/par")
    IN IF IsError(check) THEN check
       ELSE IF ~Contains(group) THEN None
       ELSE Construct(<<fermi_energy, kpoints_, eigenvalues, occupations, projectors_, projections>>,
                [tag |-> "RawBand", fermi_energy |-> fermi_energy, kpoints |-> kpoints_,
                 eigenvalues |-> eigenvalues, occupations |-> occupations,
                 projectors |-> projectors_, projections |-> projections])

_read_band(suffix) ==
    LET check == _raise_error_if_closed
        group == "results/electron_eigenvalues" \o suffix
        fermi_energy == GetScalar("results/electron_dos" \o suffix \o "/efermi")
        kpoints_ == _read_kpoints(suffix)
        eigenvalues == GetItem(group \o "/eigenvalues")
        occupations == GetItem(group \o "/fermiweights")
        projectors_ == _read_projectors(suffix)
        projections == _safe_get_key("results/projectors" \o suffix \o "/par")
    IN IF IsError(check) THEN check
       ELSE IF ~Contains(group) THEN None
       ELSE Construct(<<fermi_energy, kpoints_, eigenvalues, occupations, projectors_, projections>>,
                [tag |-> "RawBand", fermi_energy |-> fermi_energy, kpoints |-> kpoints_,
                 eigenvalues |-> eigenvalues, occupations |-> occupations,
                 projectors |-> projectors_, projections |-> projections])

(***************************************************************************)
(* File: the public properties                                             *)
(***************************************************************************)
dos == Property2(_read_dos(""), _read_dos("_kpoints_opt"))

band == Property2(_read_band(""), _read_band("_kpoints_opt"))

projectors == Property2(_read_projectors(""), _read_projectors("_kpoints_opt"))

kpoints == Property2(_read_kpoints(""), _read_kpoints("_kpoints_opt"))

topology == Property1(_read_topology)

trajectory == Property1(_read_trajectory)

cell == Property1(_read_cell)

magnetism == Property1(_read_magnetism)

structure == Property1(_read_structure)

energy == Property1(_read_energy)

density == Property1(_read_density)

(***************************************************************************)
(* State machine                                                           *)
(***************************************************************************)
NoResult == [call |-> "none", value |-> None]

NoExit == [how |-> "none", error |-> None]

Handle == pc \in {"ready", "body", "after"}

OpenMessage(filename) == "Error opening " \o filename \o " to read the data."

\* variant: the OSError of h5py escapes the constructor as it is
__init___unwrapped(filename) ==
    /\ pc = "start"
    /\ closed' = FALSE
    /\ IF _actual_filename(filename) \in fs
       THEN /\ h5f' = "open"
            /\ pc' = "ready"
            /\ result' = [call |-> "__init__", value |-> None]
       ELSE /\ h5f' = "unset"
            /\ pc' = "failed"
            /\ result' = [call |-> "__init__", value |-> OSError]
    /\ UNCHANGED <<fs, store, rewrites, exc, reads, ref, view>>

\* File.__init__: filename is the argument of the constructor
__init__(filename) ==
    /\ pc = "start"
    /\ closed' = FALSE
    /\ IF _actual_filename(filename) \in fs
       THEN /\ h5f' = "open"
            /\ pc' = "ready"
            /\ result' = [call |-> "__init__", value |-> None]
       ELSE /\ h5f' = "unset"
            /\ pc' = "failed"
            /\ result' = [call |-> "__init__",
                          value |-> FileAccessError(OpenMessage(_actual_filename(filename)), OSError)]
    /\ UNCHANGED <<fs, store, rewrites, exc, reads, ref, view>>

\* variant: close() flips the flag instead of setting it
close_flip ==
    /\ h5f' = IF closed THEN "open" ELSE "closed"
    /\ closed' = ~closed

\* variant: close() sets the flag and leaves the file open
close_flag_only ==
    /\ h5f' = h5f
    /\ closed' = TRUE

\* File.close: what it does to the handle
close ==
    /\ h5f' = "closed"
    /\ closed' = TRUE

Close ==
    /\ Handle
    /\ close
    /\ result' = [call |-> "close", value |-> None]
    /\ UNCHANGED <<fs, store, rewrites, pc, exc, reads, ref, view>>

\* the number of times in a row that the read was called, this call included
Repeated(name) ==
    IF result.call # name THEN 1
    ELSE IF reads < MaxReads THEN reads + 1 ELSE reads

\* variant: a read that closes the handle once it has its value
Read_closing(name, value) ==
    /\ Handle
    /\ result' = [call |-> name, value |-> value]
    /\ reads' = Repeated(name)
    /\ close
    /\ UNCHANGED <<fs, store, rewrites, pc, exc, ref, view>>

\* a caller reads one of the properties of the handle
Read(name, value) ==
    /\ Handle
    /\ result' = [call |-> name, value |-> value]
    /\ reads' = Repeated(name)
    /\ UNCHANGED <<fs, store, closed, h5f, rewrites, pc, exc, ref, view>>

ReadVersion == Read("version", version)

ReadDos == Read("dos", dos)

ReadBand == Read("band", band)

ReadTopology == Read("topology", topology)

ReadTrajectory == Read("trajectory", trajectory)

ReadProjectors == Read("projectors", projectors)

ReadKpoints == Read("kpoints", kpoints)

ReadCell == Read("cell", cell)

ReadMagnetism == Read("magnetism", magnetism)

ReadStructure == Read("structure", structure)

ReadEnergy == Read("energy", energy)

ReadDensity == Read("density", density)

\* the data stored in the file changes between two calls
Rewrite(key, n) ==
    /\ rewrites < MaxRewrites
    /\ key \in store.paths
    /\ n # store.data[key]
    /\ store' = [store EXCEPT !.data[key] = n]
    /\ rewrites' = rewrites + 1
    /\ UNCHANGED <<fs, closed, h5f, result, pc, exc, reads, ref, view>>

(***************************************************************************)
(* Use as a context manager: with File(...) as f: body                     *)
(***************************************************************************)
\* AbstractContextManager.__enter__ returns self
__enter__ ==
    /\ pc = "ready"
    /\ result.call = "__init__"
    /\ pc' = "body"
    /\ result' = [call |-> "__enter__", value |-> None]
    /\ UNCHANGED <<fs, store, closed, h5f, rewrites, exc, reads, ref, view>>

BodyEnd ==
    /\ pc = "body"
    /\ pc' = "leaving"
    /\ exc' = [how |-> "normal", error |-> None]
    /\ UNCHANGED <<fs, store, closed, h5f, result, rewrites, reads, ref, view>>

BodyReturn ==
    /\ pc = "body"
    /\ pc' = "leaving"
    /\ exc' = [how |-> "return", error |-> None]
    /\ UNCHANGED <<fs, store, closed, h5f, result, rewrites, reads, ref, view>>

\* the body raises an error of its own or lets the error of its last call escape
BodyErrors == {[tag |-> "RuntimeError"]} \cup (IF IsError(result.value) THEN {result.value} ELSE {})

BodyRaise(error) ==
    /\ pc = "body"
    /\ pc' = "leaving"
    /\ exc' = [how |-> "error", error |-> error]
    /\ UNCHANGED <<fs, store, closed, h5f, result, rewrites, reads, ref, view>>

\* variant: __exit__ returns True
ExitValue_true == [tag |-> "True"]

\* what File.__exit__ returns
ExitValue == None

Truthy(v) == v.tag # "None"

\* variant: __exit__ closes the file only when the body raised nothing
__exit___unless_error ==
    /\ pc = "leaving"
    /\ IF IsError(exc.error) THEN UNCHANGED <<closed, h5f>> ELSE close
    /\ pc' = "after"
    /\ result' = [call |-> "__exit__", value |-> exc.error]
    /\ UNCHANGED <<fs, store, rewrites, exc, reads, ref, view>>

\* File.__exit__, and the with statement that re-raises the error of the body
\* unless __exit__ returned a true value
__exit__ ==
    /\ pc = "leaving"
    /\ close
    /\ pc' = "after"
    /\ result' = [call |-> "__exit__",
                  value |-> IF IsError(exc.error) /\ ~Truthy(ExitValue) THEN exc.error ELSE None]
    /\ UNCHANGED <<fs, store, rewrites, exc, reads, ref, view>>

(***************************************************************************)
(* Datasets kept by the caller: a dataset of a result is a reference into  *)
(* the file and is loaded only when the caller converts it to an array     *)
(***************************************************************************)
RECURSIVE Datasets(_)
Datasets(v) ==
    IF v.tag = "Dataset" THEN {v}
    ELSE IF v.tag = "DataDict" THEN UNION {Datasets(v.dict[k]) : k \in DOMAIN v.dict}
    ELSE IF v.tag \in {"None", "Scalar", "Str", "Array"} \/ IsError(v) THEN {}
    ELSE UNION {Datasets(v[f]) : f \in DOMAIN v \ {"tag"}}

\* the read operations of File
ReadNames == {"version", "dos", "band", "topology", "trajectory", "projectors",
              "kpoints", "cell", "magnetism", "structure", "energy", "density"}

\* the caller keeps a dataset of the result of the last read
Keep(dataset) ==
    /\ Handle
    /\ result.call \in ReadNames
    /\ dataset \in Datasets(result.value)
    /\ ref' = dataset
    /\ UNCHANGED <<fs, store, closed, h5f, result, rewrites, pc, exc, reads, view>>

\* numpy.array(dataset): h5py reads the data if the file is open; closing the
\* file invalidates every dataset obtained from it
Load(dataset) ==
    IF h5f = "open" /\ dataset.path \in store.paths
    THEN [tag |-> "Array", path |-> dataset.path]
    ELSE H5pyClosedError

Materialize ==
    /\ ref # None
    /\ result' = [call |-> "materialize", value |-> Load(ref)]
    /\ UNCHANGED <<fs, store, closed, h5f, rewrites, pc, exc, reads, ref, view>>

(***************************************************************************)
(* View (src/src/py4vasp/_third_party/view/view.py): every array is given  *)
(* by its shape, a sequence of quantities by the number of steps of each   *)
(***************************************************************************)
NoView == [status |-> "none"]

NotImplemented == [tag |-> "NotImplemented"]

IncorrectUsage(message) == [tag |-> "IncorrectUsage", message |-> message]

IndexError == [tag |-> "IndexError"]

ValueError == [tag |-> "ValueError"]

Quantities(steps) == [tag |-> "Sequence", steps |-> steps]

_raise_error_if_present_on_multiple_steps(attributes) ==
    IF attributes.tag = "None" \/ attributes.steps = <<>> THEN None
    ELSE IF \E i \in DOMAIN attributes.steps : attributes.steps[i] > 1 THEN NotImplemented
    ELSE None

_raise_error_if_number_steps_inconsistent(self) ==
    IF self.elements[1] = self.lattice_vectors[1] /\ self.lattice_vectors[1] = self.positions[1]
    THEN None
    ELSE IncorrectUsage("The shape of the arrays is inconsistent.")

_raise_error_if_any_shape_is_incorrect(self) ==
    IF self.elements[1] = 0 THEN IndexError
    ELSE IF Len(self.positions) # 3 THEN ValueError
    ELSE LET number_elements == self.elements[2]
             number_positions == self.positions[2]
             vector_size == self.positions[3]
             cell_shape == Tail(self.lattice_vectors)
         IN IF number_elements # number_positions
            THEN IncorrectUsage("Number of elements inconsistent with number of positions.")
            ELSE IF vector_size # 3
            THEN IncorrectUsage("Positions must have three components.")
            ELSE IF \E i \in DOMAIN cell_shape : cell_shape[i] # 3
            THEN IncorrectUsage("Lattice vectors must be a 3x3 unit cell.")
            ELSE None

\* the first of the four checks that raises ends _verify
_verify(self) ==
    Construct(<<_raise_error_if_present_on_multiple_steps(self.grid_scalars),
                _raise_error_if_present_on_multiple_steps(self.ion_arrows),
                _raise_error_if_number_steps_inconsistent(self),
                _raise_error_if_any_shape_is_incorrect(self)>>, None)

\* the values a caller may give to the fields of a View
Steps == 0..MaxSteps

CellShapes == {<<3, 3>>, <<2, 3>>, <<3, 2>>, <<3>>}

QuantitySteps == {<<>>, <<1>>, <<2>>, <<1, 2>>}

FieldValues(field) ==
    CASE field = "elements" -> {<<n, count>> : n \in Steps, count \in {1, 2}}
      [] field = "lattice_vectors" -> {<<n>> \o shape : n \in Steps, shape \in CellShapes}
      [] field = "positions" ->
            {<<n, count, size>> : n \in Steps, count \in {1, 2}, size \in {2, 3}}
            \cup {<<n, count>> : n \in Steps, count \in {1, 2}}
      [] field \in {"grid_scalars", "ion_arrows"} ->
            {None} \cup {Quantities(steps) : steps \in QuantitySteps}

Fields == {"elements", "lattice_vectors", "positions", "grid_scalars", "ion_arrows"}

\* arguments of a trajectory of n steps of two ions that pass every check
ValidArguments(n) ==
    [status |-> "arguments", edits |-> 0,
     elements |-> <<n, 2>>, lattice_vectors |-> <<n, 3, 3>>, positions |-> <<n, 2, 3>>,
     grid_scalars |-> None, ion_arrows |-> None]

\* a field is set, among the arguments before View(...) or on the object after it
SetField(field, value) ==
    /\ view.status \in {"arguments", "object"}
    /\ view.edits < MaxEdits
    /\ value # view[field]
    /\ view' = [view EXCEPT ![field] = value, !.edits = @ + 1]
    /\ UNCHANGED <<fs, store, closed, h5f, result, rewrites, pc, exc, reads, ref>>

\* View(...): the dataclass sets the fields and calls __post_init__
__post_init__ ==
    /\ view.status = "arguments"
    /\ result' = [call |-> "View", value |-> _verify(view)]
    /\ view' = IF IsError(_verify(view)) THEN view ELSE [view EXCEPT !.status = "object"]
    /\ UNCHANGED <<fs, store, closed, h5f, rewrites, pc, exc, reads, ref>>

NGLWidget(self) == [tag |-> "NGLWidget", frames |-> self.positions[1]]

to_ngl ==
    /\ view.status = "object"
    /\ result' = [call |-> "to_ngl",
                  value |-> IF IsError(_verify(view)) THEN _verify(view) ELSE NGLWidget(view)]
    /\ UNCHANGED <<fs, store, closed, h5f, rewrites, pc, exc, reads, ref, view>>

(***************************************************************************)
(* Specifications                                                          *)
(***************************************************************************)
InitHandle ==
    /\ closed = FALSE
    /\ h5f = "unset"
    /\ result = NoResult
    /\ rewrites = 0
    /\ pc = "start"
    /\ exc = NoExit
    /\ reads = 0
    /\ ref = None

\* every content of the file with all files openable, and every set of
\* openable files with the full content
Init ==
    /\ \/ fs = ActualFilenames /\ store \in InitStores
       \/ fs \in SUBSET ActualFilenames /\ store = FullStore
    /\ InitHandle
    /\ view = NoView

Reads ==
    \/ ReadVersion \/ ReadDos \/ ReadBand \/ ReadTopology \/ ReadTrajectory
    \/ ReadProjectors \/ ReadKpoints \/ ReadCell \/ ReadMagnetism
    \/ ReadStructure \/ ReadEnergy \/ ReadDensity

Next ==
    \/ \E filename \in Filenames : __init__(filename)
    \/ Reads
    \/ Close

Spec == Init /\ [][Next]_vars

\* the same handle on a file whose data is rewritten between the calls
InitRewrite ==
    /\ fs = ActualFilenames
    /\ store \in {FullStore, MinimalStore}
    /\ InitHandle
    /\ view = NoView

NextRewrite ==
    \/ Next
    \/ \E key \in Rewritable, n \in 1..MaxValue : Rewrite(key, n)

SpecRewrite == InitRewrite /\ [][NextRewrite]_vars

InitScope ==
    /\ fs = ActualFilenames
    /\ store \in {FullStore, MinimalStore}
    /\ InitHandle
    /\ view = NoView

NextScope ==
    \/ Next
    \/ __enter__
    \/ BodyEnd
    \/ BodyReturn
    \/ \E error \in BodyErrors : BodyRaise(error)
    \/ __exit__

SpecScope == InitScope /\ [][NextScope]_vars

\* a caller that keeps datasets of the results and loads them later
InitLazy ==
    /\ fs = ActualFilenames
    /\ store \in {FullStore, MinimalStore}
    /\ InitHandle
    /\ view = NoView

NextLazy ==
    \/ Next
    \/ \E dataset \in Datasets(result.value) : Keep(dataset)
    \/ Materialize

SpecLazy == InitLazy /\ [][NextLazy]_vars

\* a View that is constructed, changed and shown
InitView ==
    /\ fs = ActualFilenames
    /\ store = FullStore
    /\ InitHandle
    /\ view \in {ValidArguments(n) : n \in 1..MaxSteps}

NextView ==
    \/ \E field \in Fields : \E value \in FieldValues(field) : SetField(field, value)
    \/ __post_init__
    \/ to_ngl

SpecView == InitView /\ [][NextView]_vars

TypeOK ==
    /\ closed \in BOOLEAN
    /\ h5f \in {"unset", "open", "closed"}
    /\ pc \in {"start", "ready", "failed", "body", "leaving", "after"}
    /\ rewrites \in 0..MaxRewrites
    /\ reads \in 0..MaxReads
    /\ ref = None \/ ref.tag = "Dataset"
    /\ view = NoView \/ (view.status \in {"arguments", "object"} /\ view.edits \in 0..MaxEdits)

(***************************************************************************)
(* Properties                                                              *)
(***************************************************************************)
\* C1: once the handle is closed, every read operation raises FileAccessError,
\* whatever the file contains, and a close() on a closed handle raises nothing.
C1_ClosedReadsFail ==
    /\ (closed /\ result.call \in ReadNames) => result.value.tag = "FileAccessError"
    /\ result.call = "close" => closed /\ ~IsError(result.value)

\* a read of a file with missing paths after close() was called
C1_Witness ==
    /\ closed
    /\ result.call = "topology"
    /\ result.value.tag = "FileAccessError"
    /\ "results/positions/ion_types" \notin store.paths

\* C2: after the with block is left the handle is closed, whether the body
\* completed, returned early or raised.
C2_ScopeCloses ==
    pc = "after" => exc.how \in {"normal", "return", "error"} /\ closed /\ h5f = "closed"

\* the with block was left by an error raised in the body
C2_Witness == pc = "after" /\ exc.how = "error" /\ closed /\ result.call = "__exit__"

\* C3: a constructed handle starts open, and a closed handle stays closed
\* under every operation.
C3_OneDirectional ==
    /\ [](result.call = "__init__" /\ pc = "ready" => ~closed /\ h5f = "open")
    /\ [][closed => closed' /\ h5f' = "closed"]_vars

\* a second close() after the with block closed the handle
C3_Witness == closed /\ pc = "after" /\ result.call = "close"

\* C4: a constructor call whose file cannot be opened raises FileAccessError
\* with the OSError as its cause and leaves no handle.
C4_OpenFails ==
    [][\A filename \in Filenames :
        (__init__(filename) /\ _actual_filename(filename) \notin fs) =>
            /\ result'.value.tag = "FileAccessError"
            /\ result'.value.cause = OSError
            /\ ~Handle'
            /\ h5f' = "unset"]_vars

\* the default file is missing while another file could be opened
C4_Witness ==
    /\ pc = "failed"
    /\ result.value.tag = "FileAccessError"
    /\ result.value.message = OpenMessage(default_filename)
    /\ fs # {}

\* the result of the last call is that of a read operation on the open handle
OpenRead == result.call \in ReadNames /\ ~closed /\ h5f = "open"

\* fields of a record that may hold None (section 3 of the specification)
Optional(tag) ==
    CASE tag \in {"RawDos", "RawBand"} -> {"projectors", "projections"}
      [] tag = "RawKpoints" -> {"labels", "label_indices"}
      [] tag = "RawStructure" -> {"magnetism"}
      [] OTHER -> {}

\* every required field of the record is there and every dataset it refers to exists
RECURSIVE FullyPresent(_)
FullyPresent(v) ==
    CASE v.tag = "None" -> FALSE
      [] v.tag = "Dataset" -> v.path \in store.paths
      [] v.tag \in {"Scalar", "Str"} -> TRUE
      [] OTHER -> \A f \in DOMAIN v \ {"tag"} :
                    (f \in Optional(v.tag) /\ v[f].tag = "None") \/ FullyPresent(v[f])

\* C5: a read operation on an open handle returns, for every content of the
\* file, records that are fully present or None, and it never raises.
C5_PresentOrAbsent ==
    OpenRead =>
        \/ result.value.tag = "RawVersion" /\ FullyPresent(result.value)
        \/ /\ result.value.tag = "DataDict"
           /\ \A k \in DOMAIN result.value.dict :
                result.value.dict[k].tag = "None" \/ FullyPresent(result.value.dict[k])

\* namespaces that a file may lack
OptionalGroups ==
    {"intermediate/ion_dynamics/magnetism"}
    \cup {"results/projectors" \o suffix : suffix \in Suffixes}
    \cup {"results/electron_dos" \o suffix : suffix \in Suffixes}
    \cup {"results/electron_eigenvalues" \o suffix : suffix \in Suffixes}

\* C6: a namespace that the file lacks shows as None in the result and never as
\* an error: no read operation raises for a path of an absent optional namespace,
\* and of a file with version and results/positions only structure returns a
\* record without magnetism and dos returns None at "default".
C6_AbsenceIsNoError ==
    /\ (OpenRead /\ result.value.tag = "KeyError") =>
            ~(Parent(result.value.key) \in OptionalGroups
              /\ Parent(result.value.key) \notin store.paths)
    /\ (OpenRead /\ store.paths = MinimalStore.paths /\ result.call = "structure") =>
            /\ result.value.tag = "DataDict"
            /\ result.value.dict["default"].tag = "RawStructure"
            /\ result.value.dict["default"].magnetism = None
    /\ (OpenRead /\ store.paths = MinimalStore.paths /\ result.call = "dos") =>
            /\ result.value.tag = "DataDict"
            /\ result.value.dict["default"] = None

VariantKinds == {"dos", "band", "kpoints", "projectors"}

VariantKey(suffix) == IF suffix = "_kpoints_opt" THEN "kpoints_opt" ELSE "default"

Keys(call) == IF call \in VariantKinds THEN {VariantKey(suffix) : suffix \in Suffixes} ELSE {"default"}

RecordTag(call) ==
    CASE call = "dos" -> "RawDos"
      [] call = "band" -> "RawBand"
      [] call = "kpoints" -> "RawKpoints"
      [] call = "projectors" -> "RawProjectors"

\* the groups of the file that hold the variant of a record kind
Namespace(call, suffix) ==
    CASE call = "dos" -> {"results/electron_dos" \o suffix}
      [] call = "band" -> {"results/electron_eigenvalues" \o suffix}
      [] call = "projectors" -> {"results/projectors" \o suffix}
      [] call = "kpoints" -> {InputName(suffix), "results/electron_eigenvalues" \o suffix}

NamespaceMissing(call, suffix) == \E group \in Namespace(call, suffix) : group \notin store.paths

NamespacePopulated(call, suffix) == \A group \in Namespace(call, suffix) : Subtree(group) \subseteq store.paths

\* C7: the keys of a returned DataDict depend on the record kind only: "default"
\* always, and "kpoints_opt" for dos, band, kpoints and projectors, where it holds
\* None if the namespace of the variant is missing and a record if it is populated,
\* whatever the other variant holds.
C7_FixedKeys ==
    result.value.tag = "DataDict" =>
        /\ DOMAIN result.value.dict = Keys(result.call)
        /\ result.call \in VariantKinds =>
             \A suffix \in Suffixes :
                /\ NamespaceMissing(result.call, suffix) =>
                        result.value.dict[VariantKey(suffix)] = None
                /\ NamespacePopulated(result.call, suffix) =>
                        result.value.dict[VariantKey(suffix)].tag = RecordTag(result.call)

\* the default variant is missing and the alternate one is populated
C7_Witness ==
    /\ result.call = "band"
    /\ result.value.tag = "DataDict"
    /\ result.value.dict["default"] = None
    /\ result.value.dict["kpoints_opt"].tag = "RawBand"

StoredVersion ==
    [tag |-> "RawVersion",
     major |-> Scalar(store.data["version/major"]),
     minor |-> Scalar(store.data["version/minor"]),
     patch |-> Scalar(store.data["version/patch"])]

\* C8: a DataDict returned by a call carries the version stored in the file at
\* the time of that call.
C8_VersionTag ==
    [][(result' # result /\ result'.value.tag = "DataDict") =>
            result'.value.version = StoredVersion']_vars

\* a dictionary read after the version in the file was rewritten
C8_Witness ==
    /\ rewrites > 0
    /\ result.value.tag = "DataDict"
    /\ result.value.version = StoredVersion
    /\ StoredVersion.major # Scalar(InitData["version/major"])

\* C9: the kpoints of a variant are a record only if both input/kpoints{_opt} and
\* results/electron_eigenvalues{suffix} exist; if one of them is missing the
\* variant is None and no error is raised for it.
C9_KpointsBoth ==
    (OpenRead /\ result.call = "kpoints") =>
        \A suffix \in Suffixes :
            NamespaceMissing("kpoints", suffix) =>
                \/ /\ result.value.tag = "DataDict"
                   /\ result.value.dict[VariantKey(suffix)] = None
                \/ /\ result.value.tag = "KeyError"
                   /\ \A group \in Namespace("kpoints", suffix) :
                        result.value.key \notin Subtree(group)

\* input/kpoints/mode exists and results/electron_eigenvalues does not
C9_Witness ==
    /\ result.call = "kpoints"
    /\ result.value.tag = "DataDict"
    /\ "input/kpoints/mode" \in store.paths
    /\ "results/electron_eigenvalues" \notin store.paths
    /\ result.value.dict["default"] = None

\* the projectors of each variant in the result of a call
ProjectorsOf(value, suffix) ==
    LET entry == value.dict[VariantKey(suffix)]
    IN IF entry.tag = "RawProjectors" THEN entry
       ELSE IF entry.tag \in {"RawDos", "RawBand"} THEN entry.projectors
       ELSE None

\* C10: number_spins of the projectors of a variant is the outer length that the
\* eigenvalues of the same variant have in the file at the time of the call.
C10_NumberSpins ==
    [][(result' # result /\ result'.call \in {"projectors", "dos", "band"}
            /\ result'.value.tag = "DataDict") =>
        \A suffix \in Suffixes :
            ProjectorsOf(result'.value, suffix) # None =>
                ProjectorsOf(result'.value, suffix).number_spins
                    = Scalar(store'.data[EigenvaluesKey(suffix)])]_vars

\* projectors read after the eigenvalues of the alternate variant changed length
C10_Witness ==
    /\ rewrites > 0
    /\ result.call = "projectors"
    /\ result.value.tag = "DataDict"
    /\ store.data[EigenvaluesKey("_kpoints_opt")] # InitData[EigenvaluesKey("_kpoints_opt")]
    /\ store.data[EigenvaluesKey("_kpoints_opt")] # store.data[EigenvaluesKey("")]
    /\ result.value.dict["kpoints_opt"].tag = "RawProjectors"
    /\ result.value.dict["kpoints_opt"].number_spins
            = Scalar(store.data[EigenvaluesKey("_kpoints_opt")])

\* C11: of a file in which results/electron_eigenvalues and
\* results/electron_eigenvalues_kpoints_opt are both populated, band returns a
\* DataDict whose "default" and "kpoints_opt" are both RawBand records, each with
\* its datasets bound to the paths of its own variant.
C11_BothBands ==
    (OpenRead /\ result.call = "band"
        /\ \A suffix \in Suffixes : NamespacePopulated("band", suffix)) =>
            /\ result.value.tag = "DataDict"
            /\ \A suffix \in Suffixes :
                LET entry == result.value.dict[VariantKey(suffix)]
                IN /\ entry.tag = "RawBand"
                   /\ entry.eigenvalues = Dataset(EigenvaluesKey(suffix))
                   /\ entry.occupations
                        = Dataset("results/electron_eigenvalues" \o suffix \o "/fermiweights")

\* C14: when the body of the with block raises, __exit__ closes the handle and
\* the with statement raises that same error; when the body raises nothing, the
\* with statement raises nothing.
C14_ErrorPropagates ==
    (pc = "after" /\ result.call = "__exit__") =>
        /\ closed /\ h5f = "closed"
        /\ ~Truthy(ExitValue)
        /\ exc.how = "error" => IsError(result.value) /\ result.value = exc.error
        /\ exc.how \in {"normal", "return"} => result.value = None

\* a KeyError of a read in the body leaves the with block
C14_Witness ==
    /\ pc = "after"
    /\ result.call = "__exit__"
    /\ exc.how = "error"
    /\ result.value.tag = "KeyError"
    /\ closed

\* C15: fermi_energy of the band and of the dos of a variant is the efermi that
\* results/electron_dos{suffix} of the same variant holds at the time of the call,
\* so the two agree and neither is taken from the other variant.
C15_FermiEnergy ==
    [][(result' # result /\ result'.call \in {"band", "dos"}
            /\ result'.value.tag = "DataDict") =>
        \A suffix \in Suffixes :
            result'.value.dict[VariantKey(suffix)].tag \in {"RawBand", "RawDos"} =>
                result'.value.dict[VariantKey(suffix)].fermi_energy
                    = Scalar(store'.data[EfermiKey(suffix)])]_vars

\* band read after efermi of the alternate variant was rewritten
C15_Witness ==
    /\ rewrites > 0
    /\ result.call = "band"
    /\ result.value.tag = "DataDict"
    /\ result.value.dict["default"].tag = "RawBand"
    /\ result.value.dict["kpoints_opt"].tag = "RawBand"
    /\ store.data[EfermiKey("_kpoints_opt")] # InitData[EfermiKey("_kpoints_opt")]
    /\ store.data[EfermiKey("_kpoints_opt")] # store.data[EfermiKey("")]
    /\ result.value.dict["kpoints_opt"].fermi_energy = Scalar(store.data[EfermiKey("_kpoints_opt")])
    /\ result.value.dict["default"].fermi_energy = Scalar(store.data[EfermiKey("")])

C13_ClosedReferenceFails ==
    [][result'.call = "materialize" =>
        /\ closed' => IsError(result'.value)
        /\ ~closed' => result'.value = [tag |-> "Array", path |-> ref'.path]]_vars

\* the charge dataset of an open handle, converted after close() was called
C13_Witness ==
    /\ closed
    /\ ref = Dataset("charge/charge")
    /\ result.call = "materialize"
    /\ IsError(result.value)

\* a sequence of quantities of which one is given on more than one step
MultipleSteps(attributes) ==
    /\ attributes.tag = "Sequence"
    /\ \E i \in DOMAIN attributes.steps : attributes.steps[i] > 1

\* arrays of at least one step with positions of three dimensions
Shaped(self) == self.elements[1] >= 1 /\ Len(self.positions) = 3

\* the kind of error that View(...) and to_ngl raise for the fields
Expected(self) ==
    IF MultipleSteps(self.grid_scalars) \/ MultipleSteps(self.ion_arrows)
    THEN "NotImplemented"
    ELSE IF ~(self.elements[1] = self.lattice_vectors[1] /\ self.lattice_vectors[1] = self.positions[1])
    THEN "IncorrectUsage"
    ELSE IF \/ self.elements[2] # self.positions[2]
            \/ self.positions[3] # 3
            \/ Tail(self.lattice_vectors) # <<3, 3>>
    THEN "IncorrectUsage"
    ELSE "None"

\* C16: View(...) and every call of to_ngl verify the fields in a fixed order:
\* grid_scalars or ion_arrows on more than one step raise NotImplemented; else
\* numbers of steps that differ raise IncorrectUsage; else a wrong number of
\* elements, positions without three components or a cell that is not 3x3
\* raise IncorrectUsage; else nothing is raised.
C16_VerifiedInOrder ==
    [][(result' # result /\ result'.call \in {"View", "to_ngl"} /\ Shaped(view')) =>
        IF Expected(view') = "None"
        THEN ~IsError(result'.value)
        ELSE result'.value.tag = Expected(view')]_vars

====
